---------------------------- MODULE Spec2Model ----------------------------
(***************************************************************************)
(* A model of ceilometer/compute/virt/xenapi/inspector.py: the XenAPI      *)
(* session establishment (get_api_session, swap_xapi_host), the inspector  *)
(* construction and the four collection operations of XenapiInspector.     *)
(*                                                                         *)
(* Strings that the code takes apart (URLs, host names) are sequences of   *)
(* one-character strings.  Every remote call is one step whose response    *)
(* is chosen by the environment; the responses are logged in `calls`.      *)
(* Floating point values are exact rationals <<numerator, denominator>>.   *)
(***************************************************************************)
EXTENDS Integers, Sequences, FiniteSets, TLC

(***************************************************************************)
(* Bounds of the model.                                                    *)
(***************************************************************************)
MaxMatches == 2
MaxVcpus == 2
MaxDevs == 2

(***************************************************************************)
(* Character strings.                                                      *)
(***************************************************************************)
Null == <<"None">>
Empty == << >>

\* str.lower() on the characters the model uses
LowerChar(c) ==
  CASE c = "A" -> "a"
    [] c = "B" -> "b"
    [] c = "M" -> "m"
    [] OTHER -> c

Lower(s) == [i \in 1..Len(s) |-> LowerChar(s[i])]

\* the least index i >= from with s[i] in chars, or 0
RECURSIVE FindFirst(_, _, _)
FindFirst(s, chars, from) ==
  IF from > Len(s) THEN 0
  ELSE IF s[from] \in chars THEN from
  ELSE FindFirst(s, chars, from + 1)

\* the greatest index i <= from with s[i] in chars, or 0
RECURSIVE FindLast(_, _, _)
FindLast(s, chars, from) ==
  IF from < 1 THEN 0
  ELSE IF s[from] \in chars THEN from
  ELSE FindLast(s, chars, from - 1)

StartsWithAt(s, old, i) ==
  /\ i + Len(old) - 1 <= Len(s)
  /\ \A k \in 1..Len(old) : s[i + k - 1] = old[k]

\* str.replace(old, new) for a non-empty `old`: every non-overlapping
\* occurrence, left to right
RECURSIVE ReplaceFrom(_, _, _, _)
ReplaceFrom(s, old, new, i) ==
  IF i > Len(s) THEN << >>
  ELSE IF StartsWithAt(s, old, i)
       THEN new \o ReplaceFrom(s, old, new, i + Len(old))
       ELSE <<s[i]>> \o ReplaceFrom(s, old, new, i + 1)

\* str.replace(old, new); an empty `old` matches before every character
\* and at the end
RECURSIVE ReplaceEmpty(_, _, _)
ReplaceEmpty(s, new, i) ==
  IF i > Len(s) THEN new
  ELSE new \o <<s[i]>> \o ReplaceEmpty(s, new, i + 1)

StrReplace(s, old, new) ==
  IF old = << >> THEN ReplaceEmpty(s, new, 1) ELSE ReplaceFrom(s, old, new, 1)

(***************************************************************************)
(* urlparse / urlunparse, as far as swap_xapi_host uses them: the scheme,  *)
(* the netloc and the rest of the URL (path, params, query, fragment).     *)
(***************************************************************************)
SchemeEnd(url) == FindFirst(url, {":"}, 1)

HasNetloc(url) ==
  /\ SchemeEnd(url) > 1
  /\ StartsWithAt(url, <<"/", "/">>, SchemeEnd(url) + 1)

NetlocStart(url) == SchemeEnd(url) + 3

NetlocEnd(url) ==
  LET e == FindFirst(url, {"/", "?", "#"}, NetlocStart(url))
  IN  IF e = 0 THEN Len(url) ELSE e - 1

UrlScheme(url) ==
  IF HasNetloc(url) THEN SubSeq(url, 1, SchemeEnd(url) - 1) ELSE << >>

UrlNetloc(url) ==
  IF HasNetloc(url) THEN SubSeq(url, NetlocStart(url), NetlocEnd(url))
  ELSE << >>

UrlRest(url) ==
  IF HasNetloc(url) THEN SubSeq(url, NetlocEnd(url) + 1, Len(url)) ELSE url

\* ParseResult.hostname: the netloc after the last "@", up to the first
\* ":", lower-cased; None when that is empty
UrlHostname(url) ==
  LET netloc == UrlNetloc(url)
      at == FindLast(netloc, {"@"}, Len(netloc))
      hostport == SubSeq(netloc, at + 1, Len(netloc))
      colon == FindFirst(hostport, {":"}, 1)
      host == IF colon = 0 THEN hostport ELSE SubSeq(hostport, 1, colon - 1)
  IN  IF host = << >> THEN Null ELSE Lower(host)

UrlUnparse(scheme, netloc, rest) ==
  scheme \o <<":", "/", "/">> \o netloc \o rest

TypeError == <<"TypeError">>

\* swap_xapi_host(url, host_addr): netloc.replace(hostname, host_addr)
swap_xapi_host(url, host_addr) ==
  IF UrlHostname(url) = Null THEN TypeError
  ELSE UrlUnparse(UrlScheme(url),
                  StrReplace(UrlNetloc(url), UrlHostname(url), host_addr),
                  UrlRest(url))

(***************************************************************************)
(* Configuration values and the environment's login responses.             *)
(***************************************************************************)
LocalUrl == <<"u", "n", "i", "x", ":", "/", "/", "l", "o", "c", "a", "l">>
HttpLower == <<"h", "t", "t", "p", ":", "/", "/", "a", "b">>
HttpUpper == <<"h", "t", "t", "p", ":", "/", "/", "A", "b", ":", "1">>

Urls == {Null, Empty, LocalUrl, HttpLower, HttpUpper}
Passwords == {Null, Empty, <<"p">>}
Masters == {<<"m">>}

Success == [ok |-> TRUE, code |-> "", master |-> Empty]
SlaveFailures == {[ok |-> FALSE, code |-> "HOST_IS_SLAVE", master |-> m] : m \in Masters}
OtherFailures == {[ok |-> FALSE, code |-> "SESSION_AUTHENTICATION_FAILED", master |-> Empty]}
LoginOutcomes == {Success} \cup SlaveFailures \cup OtherFailures

NoError == [type |-> "None", msg |-> "", detail |-> ""]
Raise(type, msg, detail) == [type |-> type, msg |-> msg, detail |-> detail]

(***************************************************************************)
(* Floating point values, as exact rationals <<numerator, denominator>>    *)
(* in lowest terms with a positive denominator.                            *)
(***************************************************************************)
Abs(n) == IF n < 0 THEN 0 - n ELSE n

RECURSIVE Gcd(_, _)
Gcd(a, b) == IF b = 0 THEN a ELSE Gcd(b, a % b)

Rat(n, d) ==
  LET g == Gcd(Abs(n), Abs(d))
      sgn == IF d < 0 THEN 0 - 1 ELSE 1
  IN  <<(sgn * n) \div g, (sgn * d) \div g>>

RatAdd(x, y) == Rat(x[1] * y[2] + y[1] * x[2], x[2] * y[2])
RatSub(x, y) == Rat(x[1] * y[2] - y[1] * x[2], x[2] * y[2])
RatMul(x, y) == Rat(x[1] * y[1], x[2] * y[2])
RatDiv(x, y) == Rat(x[1] * y[2], x[2] * y[1])
Float(n) == Rat(n, 1)

\* oslo_utils.units
Ki == 1024
Mi == 1048576

(***************************************************************************)
(* The environment: what the remote side may answer to each call.          *)
(***************************************************************************)
None == "None"
Failure == [ok |-> FALSE, value |-> None]
Ok(v) == [ok |-> TRUE, value |-> v]
\* a remote call is answered by an api.Failure or by a value
Answer(succeeds, v) == IF succeeds THEN Ok(v) ELSE Failure

\* the sequences over S of length at most n
SeqsUpTo(S, n) == UNION {[1..k -> S] : k \in 0..n}

InstanceNames == {"instance-1"}
HostRefs == {"host-ref"}
HostUuids == {"host-uuid"}
VmRefs == {"vm-a", "vm-b"}
VcpuCounts == (0 - 1)..MaxVcpus
CpuValues == {Rat(1, 2), Rat(7, 10), Rat(3, 2)}
MemoryTotals == {2097152, 1572864}
MemoryFrees == {1024, 512}
DomIds == {"1", "2"}
VifRefs == {"vif-a", "vif-b"}
VbdRefs == {"vbd-a", "vbd-b"}
VifRecs == {[uuid |-> "uuid-0", MAC |-> "mac-0", device |-> "0"],
            [uuid |-> "uuid-1", MAC |-> "mac-1", device |-> "1"]}
VbdRecs == {[device |-> "xvda"], [device |-> "xvdb"]}
RateValues == {Rat(0, 1), Rat(5, 2)}

Bw(i, o) == [bw_in |-> i, bw_out |-> o]
SnapshotFull ==
  ("1" :> ("0" :> Bw(10, 20) @@ "1" :> Bw(30, 40))) @@
  ("2" :> ("0" :> Bw(50, 60) @@ "1" :> Bw(70, 80)))
SnapshotPartial == ("1" :> ("0" :> Bw(11, 21)))
Snapshots == {SnapshotFull, SnapshotPartial}

\* pickle.dumps / pickle.loads
PickleDumps(v) == <<"pickle", v>>
PickleLoads(blob) == blob[2]

VARIABLES
  api,        \* whether "import XenAPI" succeeded
  conf,       \* conf.xenapi: connection_url, connection_password
  pc,         \* the position of the program
  url,        \* get_api_session's local url
  handles,    \* the session handles opened so far, in order
  logins,     \* the login_with_password calls so far, in order
  session,    \* self.session: an index of handles, 0 when there is none
  host_ref,   \* self.host_ref
  host_uuid,  \* self.host_uuid
  error,      \* the exception that ended the last operation
  op,         \* the collection operation being executed
  calls,      \* the remote calls of the current operation, with their answers
  frame,      \* the local variables of the current operation
  requested,  \* how many elements the consumer has asked the generator for
  out,        \* the elements the generator has yielded, in order
  result,     \* what inspect_instance returned
  swap        \* a stand-alone application of swap_xapi_host, and its reversal

sessionVars == <<swap, api, conf, url, handles, logins, session, host_ref, host_uuid>>
opVars == <<op, calls, frame, requested, out, result>>
vars == <<api, conf, pc, url, handles, logins, session, host_ref, host_uuid,
          error, op, calls, frame, requested, out, result, swap>>

NoSwap ==
  [stage |-> "none", userinfo |-> Empty, host |-> Empty, port |-> Empty,
   rest |-> Empty, host_addr |-> Empty, url |-> Null, swapped |-> Null,
   back |-> Null]

EmptyFrame ==
  [instance_name |-> None, vm_ref |-> None, vcpus_number |-> 0, index |-> 0,
   cpu_util |-> Float(0), total_mem |-> 0, dom_id |-> None, refs |-> << >>,
   bw_all |-> None, i |-> 0, rec |-> None, rate |-> Float(0)]

Init ==
  /\ api \in BOOLEAN
  /\ conf \in [connection_url : Urls, connection_password : Passwords]
  /\ pc = "new"
  /\ url = Null
  /\ handles = << >>
  /\ logins = << >>
  /\ session = 0
  /\ host_ref = Null
  /\ host_uuid = Null
  /\ error = NoError
  /\ op = None
  /\ calls = << >>
  /\ frame = EmptyFrame
  /\ requested = 0
  /\ out = << >>
  /\ result = None
  /\ swap = NoSwap

(***************************************************************************)
(* get_api_session                                                         *)
(***************************************************************************)
MissingConfig_url_only(u, password) == u = Null \/ u = Empty

\* "if not url or password is None"
MissingConfig(u, password) == u = Null \/ u = Empty \/ password = Null

OpenFirst_network(u) == [kind |-> "network", url |-> u]

\* "api.xapi_local() if url == 'unix://local' else api.Session(url)"
OpenFirst(u) ==
  [kind |-> IF u = LocalUrl THEN "local" ELSE "network", url |-> u]

\* "api.Session(url)"
OpenNetwork(u) == [kind |-> "network", url |-> u]

SessionReturned_first(hs) == 1

\* "return session": the handle that the name `session` is bound to last
SessionReturned(hs) == Len(hs)

\* get_api_session up to the first login_with_password
GetApiSession ==
  /\ pc = "new"
  /\ IF ~api
     THEN /\ error' = Raise("ImportError", "XenAPI not installed", "")
          /\ pc' = "failed"
          /\ UNCHANGED <<url, handles>>
     ELSE IF MissingConfig(conf.connection_url, conf.connection_password)
     THEN /\ error' = Raise("XenapiException",
                            "Must specify connection_url, and connection_password to use", "")
          /\ pc' = "failed"
          /\ url' = conf.connection_url
          /\ UNCHANGED handles
     ELSE /\ url' = conf.connection_url
          /\ handles' = <<OpenFirst(conf.connection_url)>>
          /\ pc' = "login"
          /\ UNCHANGED error
  /\ UNCHANGED <<swap, api, conf, logins, session, host_ref, host_uuid>>
  /\ UNCHANGED opVars

FirstFailure_retries_any(details, u) ==
  [retry |-> TRUE, url |-> swap_xapi_host(u, details.master), error |-> NoError]

\* what the handler of the first login's api.Failure does with e.details
FirstFailure(details, u) ==
  IF details.code = "HOST_IS_SLAVE"
  THEN IF swap_xapi_host(u, details.master) = TypeError
       THEN [retry |-> FALSE, url |-> u, error |-> Raise("TypeError", "", "")]
       ELSE [retry |-> TRUE, url |-> swap_xapi_host(u, details.master),
             error |-> NoError]
  ELSE [retry |-> FALSE, url |-> u,
        error |-> Raise("XenapiException", "Could not connect to XenAPI", details.code)]

\* the first session.login_with_password and the handler of its failure
Login ==
  /\ pc = "login"
  /\ \E o \in LoginOutcomes :
       /\ logins' = Append(logins, [handle |-> Len(handles), outcome |-> o])
       /\ IF o.ok
          THEN /\ session' = SessionReturned(handles)
               /\ pc' = "get_this_host"
               /\ UNCHANGED <<url, handles, error>>
          ELSE LET f == FirstFailure(o, url)
               IN  /\ url' = f.url
                   /\ error' = f.error
                   /\ handles' = IF f.retry THEN Append(handles, OpenNetwork(f.url))
                                 ELSE handles
                   /\ pc' = IF f.retry THEN "login_master" ELSE "failed"
                   /\ UNCHANGED session
  /\ UNCHANGED <<swap, api, conf, host_ref, host_uuid>>
  /\ UNCHANGED opVars

\* the handler of the second login's api.Failure
SecondFailure(details) ==
  Raise("XenapiException", "Could not connect slave host", details.code)

\* the second session.login_with_password, against the master
LoginMaster ==
  /\ pc = "login_master"
  /\ \E o \in LoginOutcomes :
       /\ logins' = Append(logins, [handle |-> Len(handles), outcome |-> o])
       /\ IF o.ok
          THEN /\ session' = SessionReturned(handles)
               /\ pc' = "get_this_host"
               /\ UNCHANGED error
          ELSE /\ error' = SecondFailure(o)
               /\ pc' = "failed"
               /\ UNCHANGED session
  /\ UNCHANGED <<swap, api, conf, url, handles, host_ref, host_uuid>>
  /\ UNCHANGED opVars

(***************************************************************************)
(* XenapiInspector.__init__                                                *)
(***************************************************************************)
\* a remote call through self.session, and its answer
Call(method, args, answer) ==
  Append(calls, [method |-> method, args |-> args, answer |-> answer,
                 session |-> session])

Propagate_wrapped == Raise("XenapiException", "", "")

\* an api.Failure of a remote call, which nothing here catches
Propagate == Raise("Failure", "", "")

\* self.host_ref = self._get_host_ref()
GetHostRef ==
  /\ pc = "get_this_host"
  /\ \E succeeds \in BOOLEAN, v \in HostRefs :
       LET a == Answer(succeeds, v) IN
       /\ calls' = Call("session.get_this_host", <<session>>, a)
       /\ IF a.ok
          THEN /\ host_ref' = a.value
               /\ pc' = "get_uuid"
               /\ UNCHANGED error
          ELSE /\ error' = Propagate
               /\ pc' = "failed"
               /\ UNCHANGED host_ref
  /\ UNCHANGED <<swap, api, conf, url, handles, logins, session, host_uuid>>
  /\ UNCHANGED <<op, frame, requested, out, result>>

\* self.host_uuid = self._get_host_uuid()
GetHostUuid ==
  /\ pc = "get_uuid"
  /\ \E succeeds \in BOOLEAN, v \in HostUuids :
       LET a == Answer(succeeds, v) IN
       /\ calls' = Call("host.get_uuid", <<host_ref>>, a)
       /\ IF a.ok
          THEN /\ host_uuid' = a.value
               /\ pc' = "ready"
               /\ UNCHANGED error
          ELSE /\ error' = Propagate
               /\ pc' = "failed"
               /\ UNCHANGED host_uuid
  /\ UNCHANGED <<swap, api, conf, url, handles, logins, session, host_ref>>
  /\ UNCHANGED <<op, frame, requested, out, result>>

(***************************************************************************)
(* Invocation of the collection operations.  inspect_instance is an        *)
(* ordinary method: its body runs when it is called.  The other three are  *)
(* generator functions: calling one only creates the generator, whose      *)
(* body runs when the consumer asks for an element.                        *)
(***************************************************************************)
Generators == {"inspect_vnics", "inspect_vnic_rates", "inspect_disk_rates"}

NewFrame(name) == [EmptyFrame EXCEPT !.instance_name = name]

Invoke(o, name, at) ==
  /\ pc = "ready"
  /\ op' = o
  /\ calls' = << >>
  /\ frame' = NewFrame(name)
  /\ requested' = 0
  /\ out' = << >>
  /\ result' = None
  /\ error' = NoError
  /\ pc' = at
  /\ UNCHANGED sessionVars

InspectInstance == \E name \in InstanceNames : Invoke("inspect_instance", name, "lookup")
InspectVnics == \E name \in InstanceNames : Invoke("inspect_vnics", name, "created")
InspectVnicRates == \E name \in InstanceNames : Invoke("inspect_vnic_rates", name, "created")
InspectDiskRates == \E name \in InstanceNames : Invoke("inspect_disk_rates", name, "created")

\* where a "for ref in refs" loop goes on at position i + 1: to the record
\* fetch of the next reference, or to the end of the generator
LoopFrom(refs, i, fetch) == IF i < Len(refs) THEN fetch ELSE "exhausted"

RecordFetch(o) == IF o = "inspect_disk_rates" THEN "VBD.get_record" ELSE "VIF.get_record"

AfterYield_eager(o) == RecordFetch(o)

\* "yield": the body stops until the consumer asks for the next element
AfterYield(o) == "suspended"

\* the consumer's next(): the body starts, or resumes after its yield
NextElement ==
  /\ pc \in {"created", "suspended"}
  /\ requested' = requested + 1
  /\ IF pc = "created"
     THEN /\ pc' = "lookup"
          /\ UNCHANGED frame
     ELSE /\ pc' = LoopFrom(frame.refs, frame.i, RecordFetch(op))
          /\ frame' = [frame EXCEPT !.i = frame.i + 1, !.rec = None,
                                    !.rate = Float(0)]
  /\ UNCHANGED <<error, op, calls, out, result>>
  /\ UNCHANGED sessionVars

Forget_drops_session ==
  /\ pc' = "ready"
  /\ op' = None
  /\ calls' = << >>
  /\ frame' = EmptyFrame
  /\ requested' = 0
  /\ out' = << >>
  /\ result' = None
  /\ error' = NoError
  /\ session' = 0
  /\ UNCHANGED <<swap, api, conf, url, handles, logins, host_ref, host_uuid>>

\* the operation is over: its frame is gone, and the inspector is idle
Forget ==
  /\ pc' = "ready"
  /\ op' = None
  /\ calls' = << >>
  /\ frame' = EmptyFrame
  /\ requested' = 0
  /\ out' = << >>
  /\ result' = None
  /\ error' = NoError
  /\ UNCHANGED sessionVars

\* the consumer drops a generator it has not run to its end
Close ==
  /\ pc \in {"created", "suspended"}
  /\ Forget

\* the caller has the operation's outcome: its value, its exception, or
\* the end of the sequence
Return ==
  /\ pc \in {"returned", "raised", "exhausted"}
  /\ Forget

(***************************************************************************)
(* XenapiInspector._lookup_by_name                                         *)
(***************************************************************************)
lookup_by_name_first(vm_refs, instance_name) ==
  IF Len(vm_refs) = 0
  THEN [error |-> Raise("InstanceNotFoundException", "VM not found in XenServer",
                        instance_name),
        vm_ref |-> None]
  ELSE [error |-> NoError, vm_ref |-> vm_refs[1]]

lookup_by_name_cached(vm_refs, instance_name) ==
  IF Len(vm_refs) = 1
  THEN [error |-> NoError, vm_ref |-> "vm-a"]
  ELSE [error |-> Raise("XenapiException", "Multiple VM found in XenServer",
                        instance_name),
        vm_ref |-> None]

\* the branches on n = len(vm_refs)
lookup_by_name(vm_refs, instance_name) ==
  IF Len(vm_refs) = 0
  THEN [error |-> Raise("InstanceNotFoundException", "VM not found in XenServer",
                        instance_name),
        vm_ref |-> None]
  ELSE IF Len(vm_refs) > 1
  THEN [error |-> Raise("XenapiException", "Multiple VM found in XenServer",
                        instance_name),
        vm_ref |-> None]
  ELSE [error |-> NoError, vm_ref |-> vm_refs[1]]

\* the statement after "vm_ref = self._lookup_by_name(instance_name)"
AfterLookup(o) ==
  CASE o = "inspect_instance" -> "VM.get_VCPUs_max"
    [] o = "inspect_vnics" -> "VM.get_domid"
    [] o = "inspect_vnic_rates" -> "VM.get_VIFs"
    [] o = "inspect_disk_rates" -> "VM.get_VBDs"

LookupByName ==
  /\ pc = "lookup"
  /\ \E succeeds \in BOOLEAN, v \in SeqsUpTo(VmRefs, MaxMatches) :
       LET a == Answer(succeeds, v) IN
       /\ calls' = Call("VM.get_by_name_label", <<frame.instance_name>>, a)
       /\ IF a.ok
          THEN LET r == lookup_by_name(a.value, frame.instance_name)
               IN  /\ error' = r.error
                   /\ frame' = [frame EXCEPT !.vm_ref = r.vm_ref]
                   /\ pc' = IF r.error = NoError THEN AfterLookup(op) ELSE "raised"
          ELSE /\ error' = Propagate
               /\ pc' = "raised"
               /\ UNCHANGED frame
  /\ UNCHANGED <<op, requested, out, result>>
  /\ UNCHANGED sessionVars

(***************************************************************************)
(* XenapiInspector.inspect_instance                                        *)
(***************************************************************************)
InvalidVcpus_negative(vcpus_number) == vcpus_number < 0

\* "if vcpus_number <= 0"
InvalidVcpus(vcpus_number) == vcpus_number <= 0

\* _get_cpu_usage: the VCPU count and its check
GetVcpusMax ==
  /\ pc = "VM.get_VCPUs_max"
  /\ \E succeeds \in BOOLEAN, v \in VcpuCounts :
       LET a == Answer(succeeds, v) IN
       /\ calls' = Call("VM.get_VCPUs_max", <<frame.vm_ref>>, a)
       /\ IF ~a.ok
          THEN /\ error' = Propagate
               /\ pc' = "raised"
               /\ UNCHANGED frame
          ELSE IF InvalidVcpus(a.value)
          THEN /\ error' = Raise("XenapiException", "Could not get VM CPU number",
                                 frame.instance_name)
               /\ pc' = "raised"
               /\ UNCHANGED frame
          ELSE /\ frame' = [frame EXCEPT !.vcpus_number = a.value, !.index = 0,
                                         !.cpu_util = Float(0)]
               /\ pc' = "cpu"
               /\ UNCHANGED error
  /\ UNCHANGED <<op, requested, out, result>>
  /\ UNCHANGED sessionVars

\* the data source names: "cpu%d" % index, "memory", "vif_%s_rx" % device
CpuSource(index) == <<"cpu", index>>
Source(name) == <<name>>
DeviceSource(kind, device, what) == <<kind, device, what>>

\* _get_cpu_usage: one turn of "for index in range(vcpus_number)"
QueryCpu ==
  /\ pc = "cpu"
  /\ \E succeeds \in BOOLEAN, v \in CpuValues :
       LET a == Answer(succeeds, v) IN
       /\ calls' = Call("VM.query_data_source", <<frame.vm_ref, CpuSource(frame.index)>>, a)
       /\ IF a.ok
          THEN /\ frame' = [frame EXCEPT !.cpu_util = RatAdd(frame.cpu_util, a.value),
                                         !.index = frame.index + 1]
               /\ pc' = IF frame.index + 1 < frame.vcpus_number THEN "cpu" ELSE "memory"
               /\ UNCHANGED error
          ELSE /\ error' = Propagate
               /\ pc' = "raised"
               /\ UNCHANGED frame
  /\ UNCHANGED <<op, requested, out, result>>
  /\ UNCHANGED sessionVars

cpu_usage_clamped(cpu_util, vcpus_number) ==
  LET u == RatMul(RatDiv(cpu_util, Float(vcpus_number)), Float(100))
  IN  IF u[1] > 100 * u[2] THEN Float(100) ELSE u

\* "return cpu_util / int(vcpus_number) * 100"
cpu_usage(cpu_util, vcpus_number) ==
  RatMul(RatDiv(cpu_util, Float(vcpus_number)), Float(100))

\* _get_memory_usage: the "memory" data source
QueryMemory ==
  /\ pc = "memory"
  /\ \E succeeds \in BOOLEAN, v \in MemoryTotals :
       LET a == Answer(succeeds, v) IN
       /\ calls' = Call("VM.query_data_source", <<frame.vm_ref, Source("memory")>>, a)
       /\ IF a.ok
          THEN /\ frame' = [frame EXCEPT !.total_mem = a.value]
               /\ pc' = "memory_internal_free"
               /\ UNCHANGED error
          ELSE /\ error' = Propagate
               /\ pc' = "raised"
               /\ UNCHANGED frame
  /\ UNCHANGED <<op, requested, out, result>>
  /\ UNCHANGED sessionVars

\* "try: free_mem = float(...) except api.Failure: free_mem = 0"
free_mem(answer) == IF answer.ok THEN answer.value ELSE 0

memory_usage_free_in_bytes(total_mem, free) == Rat(total_mem - free, Mi)

\* "return (total_mem - free_mem * units.Ki) / units.Mi"
memory_usage(total_mem, free) == Rat(total_mem - free * Ki, Mi)

InstanceStats(cpu_util, mem) == [cpu_util |-> cpu_util, memory_usage |-> mem]

\* _get_memory_usage: the "memory_internal_free" data source, and the
\* return of inspect_instance
QueryMemoryFree ==
  /\ pc = "memory_internal_free"
  /\ \E succeeds \in BOOLEAN, v \in MemoryFrees :
       LET a == Answer(succeeds, v) IN
       /\ calls' = Call("VM.query_data_source", <<frame.vm_ref, Source("memory_internal_free")>>, a)
       /\ result' = InstanceStats(cpu_usage(frame.cpu_util, frame.vcpus_number),
                                  memory_usage(frame.total_mem, free_mem(a)))
       /\ pc' = "returned"
  /\ UNCHANGED <<error, op, frame, requested, out>>
  /\ UNCHANGED sessionVars

(***************************************************************************)
(* XenapiInspector.inspect_vnics                                           *)
(***************************************************************************)
\* "VM.get_domid"
GetDomid ==
  /\ pc = "VM.get_domid"
  /\ \E succeeds \in BOOLEAN, v \in DomIds :
       LET a == Answer(succeeds, v) IN
       /\ calls' = Call("VM.get_domid", <<frame.vm_ref>>, a)
       /\ IF a.ok
          THEN /\ frame' = [frame EXCEPT !.dom_id = a.value]
               /\ pc' = "VM.get_VIFs"
               /\ UNCHANGED error
          ELSE /\ error' = Propagate
               /\ pc' = "raised"
               /\ UNCHANGED frame
  /\ UNCHANGED <<op, requested, out, result>>
  /\ UNCHANGED sessionVars

\* the references a loop runs over: "vif_refs or []", "if vif_refs:"
Listing(refs) == IF refs = <<None>> THEN << >> ELSE refs

\* what a listing call may answer: a list of references, or None
Listings(refs) == SeqsUpTo(refs, MaxDevs) \cup {<<None>>}

\* "VM.get_VIFs", of inspect_vnics and of inspect_vnic_rates
GetVIFs ==
  /\ pc = "VM.get_VIFs"
  /\ \E succeeds \in BOOLEAN, v \in Listings(VifRefs) :
       LET a == Answer(succeeds, v) IN
       /\ calls' = Call("VM.get_VIFs", <<frame.vm_ref>>, a)
       /\ IF a.ok
          THEN /\ frame' = [frame EXCEPT !.refs = Listing(a.value),
                                         !.i = IF op = "inspect_vnics" THEN 0 ELSE 1]
               /\ pc' = IF op = "inspect_vnics" THEN "fetch_all_bandwidth"
                        ELSE LoopFrom(Listing(a.value), 0, "VIF.get_record")
               /\ UNCHANGED error
          ELSE /\ error' = Propagate
               /\ pc' = "raised"
               /\ UNCHANGED frame
  /\ UNCHANGED <<op, requested, out, result>>
  /\ UNCHANGED sessionVars

\* _call_plugin_serialized('bandwidth', 'fetch_all_bandwidth') through
\* _call_plugin, which adds host_uuid to the arguments
FetchAllBandwidth ==
  /\ pc = "fetch_all_bandwidth"
  /\ \E succeeds \in BOOLEAN, v \in {PickleDumps(b) : b \in Snapshots} :
       LET a == Answer(succeeds, v) IN
       /\ calls' = Call("host.call_plugin",
                        <<host_ref, "bandwidth", "fetch_all_bandwidth",
                          [params |-> PickleDumps([args |-> << >>, kwargs |-> << >>]),
                           host_uuid |-> host_uuid]>>, a)
       /\ IF a.ok
          THEN /\ frame' = [frame EXCEPT !.bw_all = PickleLoads(a.value), !.i = 1]
               /\ pc' = LoopFrom(frame.refs, 0, "VIF.get_record")
               /\ UNCHANGED error
          ELSE /\ error' = Propagate
               /\ pc' = "raised"
               /\ UNCHANGED frame
  /\ UNCHANGED <<op, requested, out, result>>
  /\ UNCHANGED sessionVars

Interface(vif_rec) ==
  [name |-> vif_rec.uuid, mac |-> vif_rec.MAC, fref |-> None, parameters |-> None]

InterfaceStats_packets_from_plugin(bw_vif) ==
  [rx_bytes |-> bw_vif.bw_in, rx_packets |-> bw_vif.bw_in, rx_drop |-> 0 - 1,
   rx_errors |-> 0 - 1, tx_bytes |-> bw_vif.bw_out, tx_packets |-> bw_vif.bw_out,
   tx_drop |-> 0 - 1, tx_errors |-> 0 - 1]

InterfaceStats_swapped(bw_vif) ==
  [rx_bytes |-> bw_vif.bw_out, rx_packets |-> 0 - 1, rx_drop |-> 0 - 1,
   rx_errors |-> 0 - 1, tx_bytes |-> bw_vif.bw_in, tx_packets |-> 0 - 1,
   tx_drop |-> 0 - 1, tx_errors |-> 0 - 1]

\* virt_inspector.InterfaceStats(rx_bytes=bw_vif['bw_in'], ...)
InterfaceStats(bw_vif) ==
  [rx_bytes |-> bw_vif.bw_in, rx_packets |-> 0 - 1, rx_drop |-> 0 - 1,
   rx_errors |-> 0 - 1, tx_bytes |-> bw_vif.bw_out, tx_packets |-> 0 - 1,
   tx_drop |-> 0 - 1, tx_errors |-> 0 - 1]

bw_lookup_default(bw_all, dom_id, device) ==
  IF dom_id \notin DOMAIN bw_all \/ device \notin DOMAIN bw_all[dom_id]
  THEN [error |-> NoError, bw_vif |-> Bw(0, 0)]
  ELSE [error |-> NoError, bw_vif |-> bw_all[dom_id][device]]

\* "bw_vif = bw_all[dom_id][vif_rec['device']]"
bw_lookup(bw_all, dom_id, device) ==
  IF dom_id \notin DOMAIN bw_all
  THEN [error |-> Raise("KeyError", "", dom_id), bw_vif |-> None]
  ELSE IF device \notin DOMAIN bw_all[dom_id]
  THEN [error |-> Raise("KeyError", "", device), bw_vif |-> None]
  ELSE [error |-> NoError, bw_vif |-> bw_all[dom_id][device]]

\* "VIF.get_record", of inspect_vnics (which then yields) and of
\* inspect_vnic_rates (which goes on to the two rate queries)
GetVifRecord ==
  /\ pc = "VIF.get_record"
  /\ \E succeeds \in BOOLEAN, v \in VifRecs :
       LET a == Answer(succeeds, v) IN
       /\ calls' = Call("VIF.get_record", <<frame.refs[frame.i]>>, a)
       /\ IF ~a.ok
          THEN /\ error' = Propagate
               /\ pc' = "raised"
               /\ UNCHANGED <<frame, out>>
          ELSE IF op = "inspect_vnic_rates"
          THEN /\ frame' = [frame EXCEPT !.rec = a.value]
               /\ pc' = "vif_rx"
               /\ UNCHANGED <<error, out>>
          ELSE LET b == bw_lookup(frame.bw_all, frame.dom_id, a.value.device)
               IN  /\ frame' = [frame EXCEPT !.rec = a.value]
                   /\ error' = b.error
                   /\ IF b.error = NoError
                      THEN /\ out' = Append(out, <<Interface(a.value),
                                                   InterfaceStats(b.bw_vif)>>)
                           /\ pc' = AfterYield(op)
                      ELSE /\ pc' = "raised"
                           /\ UNCHANGED out
  /\ UNCHANGED <<op, requested, result>>
  /\ UNCHANGED sessionVars

(***************************************************************************)
(* XenapiInspector.inspect_vnic_rates and inspect_disk_rates: the records  *)
(* they yield, and the two rate queries of an element                      *)
(***************************************************************************)
InterfaceRateStats(rx_rate, tx_rate) ==
  [rx_bytes_rate |-> rx_rate, tx_bytes_rate |-> tx_rate]

VnicRateElement_swapped(vif_rec, rx_rate, tx_rate) ==
  <<Interface(vif_rec), InterfaceRateStats(tx_rate, rx_rate)>>

VnicRateElement(vif_rec, rx_rate, tx_rate) ==
  <<Interface(vif_rec), InterfaceRateStats(rx_rate, tx_rate)>>

Disk(vbd_rec) == [device |-> vbd_rec.device]

DiskRateStats_swapped(read_rate, write_rate) ==
  [read_bytes_rate |-> write_rate, read_requests_rate |-> 0,
   write_bytes_rate |-> read_rate, write_requests_rate |-> 0]

DiskRateStats(read_rate, write_rate) ==
  [read_bytes_rate |-> read_rate, read_requests_rate |-> 0,
   write_bytes_rate |-> write_rate, write_requests_rate |-> 0]

DiskRateElement(vbd_rec, read_rate, write_rate) ==
  <<Disk(vbd_rec), DiskRateStats(read_rate, write_rate)>>

\* the pair an operation yields after its second rate query
Element(o, rec, first_rate, second_rate) ==
  IF o = "inspect_disk_rates" THEN DiskRateElement(rec, first_rate, second_rate)
  ELSE VnicRateElement(rec, first_rate, second_rate)

\* the first data-source query of an element
QueryFirst(at, kind, what, then) ==
  /\ pc = at
  /\ \E succeeds \in BOOLEAN, v \in RateValues :
       LET a == Answer(succeeds, v) IN
       /\ calls' = Call("VM.query_data_source",
                        <<frame.vm_ref, DeviceSource(kind, frame.rec.device, what)>>, a)
       /\ IF a.ok
          THEN /\ frame' = [frame EXCEPT !.rate = a.value]
               /\ pc' = then
               /\ UNCHANGED error
          ELSE /\ error' = Propagate
               /\ pc' = "raised"
               /\ UNCHANGED frame
  /\ UNCHANGED <<op, requested, out, result>>
  /\ UNCHANGED sessionVars

\* the second data-source query of an element, and the yield
QuerySecond(at, kind, what) ==
  /\ pc = at
  /\ \E succeeds \in BOOLEAN, v \in RateValues :
       LET a == Answer(succeeds, v) IN
       /\ calls' = Call("VM.query_data_source",
                        <<frame.vm_ref, DeviceSource(kind, frame.rec.device, what)>>, a)
       /\ IF a.ok
          THEN /\ out' = Append(out, Element(op, frame.rec, frame.rate, a.value))
               /\ pc' = AfterYield(op)
               /\ UNCHANGED error
          ELSE /\ error' = Propagate
               /\ pc' = "raised"
               /\ UNCHANGED out
  /\ UNCHANGED <<op, frame, requested, result>>
  /\ UNCHANGED sessionVars

QueryVifRx == QueryFirst("vif_rx", "vif", "rx", "vif_tx")
QueryVifTx == QuerySecond("vif_tx", "vif", "tx")

(***************************************************************************)
(* XenapiInspector.inspect_disk_rates: the listing and the record fetch    *)
(***************************************************************************)
\* "VM.get_VBDs"
GetVBDs ==
  /\ pc = "VM.get_VBDs"
  /\ \E succeeds \in BOOLEAN, v \in Listings(VbdRefs) :
       LET a == Answer(succeeds, v) IN
       /\ calls' = Call("VM.get_VBDs", <<frame.vm_ref>>, a)
       /\ IF a.ok
          THEN /\ frame' = [frame EXCEPT !.refs = Listing(a.value), !.i = 1]
               /\ pc' = LoopFrom(Listing(a.value), 0, "VBD.get_record")
               /\ UNCHANGED error
          ELSE /\ error' = Propagate
               /\ pc' = "raised"
               /\ UNCHANGED frame
  /\ UNCHANGED <<op, requested, out, result>>
  /\ UNCHANGED sessionVars

\* "VBD.get_record"
GetVbdRecord ==
  /\ pc = "VBD.get_record"
  /\ \E succeeds \in BOOLEAN, v \in VbdRecs :
       LET a == Answer(succeeds, v) IN
       /\ calls' = Call("VBD.get_record", <<frame.refs[frame.i]>>, a)
       /\ IF a.ok
          THEN /\ frame' = [frame EXCEPT !.rec = a.value]
               /\ pc' = "vbd_read"
               /\ UNCHANGED error
          ELSE /\ error' = Propagate
               /\ pc' = "raised"
               /\ UNCHANGED frame
  /\ UNCHANGED <<op, requested, out, result>>
  /\ UNCHANGED sessionVars

QueryVbdRead == QueryFirst("vbd_read", "vbd", "read", "vbd_write")
QueryVbdWrite == QuerySecond("vbd_write", "vbd", "write")

Next ==
  \/ GetApiSession
  \/ Login
  \/ LoginMaster
  \/ GetHostRef
  \/ GetHostUuid
  \/ InspectInstance
  \/ InspectVnics
  \/ InspectVnicRates
  \/ InspectDiskRates
  \/ NextElement
  \/ Close
  \/ Return
  \/ LookupByName
  \/ GetVcpusMax
  \/ QueryCpu
  \/ QueryMemory
  \/ QueryMemoryFree
  \/ GetDomid
  \/ GetVIFs
  \/ FetchAllBandwidth
  \/ GetVifRecord
  \/ QueryVifRx
  \/ QueryVifTx
  \/ GetVBDs
  \/ GetVbdRecord
  \/ QueryVbdRead
  \/ QueryVbdWrite

Spec == Init /\ [][Next]_vars

(***************************************************************************)
(* swap_xapi_host on its own: a URL "http://" userinfo host port rest is   *)
(* given a new host, and the result is given the first host back.  The     *)
(* rests have no empty query or fragment, so that urlunparse writes them   *)
(* as urlparse read them.                                                  *)
(***************************************************************************)
SwapUserinfos == {Empty, <<"a", "b", "@">>, <<"m", "@">>}
SwapHosts == {<<"a", "b">>, <<"A", "b">>, <<"1">>}
SwapPorts == {Empty, <<":", "1">>, <<":", "1", "1">>}
SwapRests == {Empty, <<"/", "a", "b">>}
SwapAddrs == {<<"m">>, <<"M">>, <<"1">>}

Http == <<"h", "t", "t", "p">>

\* the URL with these components, written out
UrlOf(userinfo, host, port, rest) ==
  Http \o <<":", "/", "/">> \o userinfo \o host \o port \o rest

SwapInputs ==
  {[stage |-> "input", userinfo |-> ui, host |-> h, port |-> p, rest |-> r,
    host_addr |-> a, url |-> UrlOf(ui, h, p, r), swapped |-> Null,
    back |-> Null] :
     ui \in SwapUserinfos, h \in SwapHosts, p \in SwapPorts,
     r \in SwapRests, a \in SwapAddrs}

SwapInit ==
  /\ swap \in SwapInputs
  /\ api = TRUE
  /\ conf = [connection_url |-> Null, connection_password |-> Null]
  /\ pc = "swap"
  /\ url = Null
  /\ handles = << >>
  /\ logins = << >>
  /\ session = 0
  /\ host_ref = Null
  /\ host_uuid = Null
  /\ error = NoError
  /\ op = None
  /\ calls = << >>
  /\ frame = EmptyFrame
  /\ requested = 0
  /\ out = << >>
  /\ result = None

\* swap_xapi_host(url, host_addr)
SwapHost ==
  /\ pc = "swap"
  /\ swap.stage = "input"
  /\ swap' = [swap EXCEPT !.stage = "swapped",
                          !.swapped = swap_xapi_host(swap.url, swap.host_addr)]
  /\ UNCHANGED <<api, conf, pc, url, handles, logins, session, host_ref,
                 host_uuid, error>>
  /\ UNCHANGED opVars

\* swap_xapi_host(swapped, host): the first host is put back
SwapBack ==
  /\ pc = "swap"
  /\ swap.stage = "swapped"
  /\ swap' = [swap EXCEPT !.stage = "back",
                          !.back = swap_xapi_host(swap.swapped, swap.host)]
  /\ UNCHANGED <<api, conf, pc, url, handles, logins, session, host_ref,
                 host_uuid, error>>
  /\ UNCHANGED opVars

SwapNext == SwapHost \/ SwapBack

SwapSpec == SwapInit /\ [][SwapNext]_vars

(***************************************************************************)
(* Properties of get_api_session.                                          *)
(***************************************************************************)
FirstLoginFailed == Len(logins) >= 1 /\ ~logins[1].outcome.ok
FirstLoginSlave == FirstLoginFailed /\ logins[1].outcome.code = "HOST_IS_SLAVE"
ConfigError ==
  Raise("XenapiException", "Must specify connection_url, and connection_password to use", "")

\* C1: a first login failure HOST_IS_SLAVE with payload master_ip leads to
\* exactly one retried login, on a new network session opened to the URL
\* whose host equals master_ip; a failure of the retry ends the operation
\* with XenapiException and nothing further; there are never more than two
\* logins.
C1_SlaveRedirectRetriesOnceAtMaster ==
  /\ Len(logins) <= 2
  /\ Len(handles) <= 2
  /\ FirstLoginSlave =>
       /\ Len(handles) = 2
       /\ handles[2].kind = "network"
       /\ UrlHostname(handles[2].url) = logins[1].outcome.master
       /\ pc = "login_master" <=> Len(logins) = 1
       /\ Len(logins) = 2 => logins[2].handle = 2
       /\ (Len(logins) = 2 /\ ~logins[2].outcome.ok) =>
            /\ pc = "failed"
            /\ error = Raise("XenapiException", "Could not connect slave host",
                             logins[2].outcome.code)
            /\ session = 0

\* C2: a first login failure with any reason other than HOST_IS_SLAVE ends
\* get_api_session with XenapiException carrying the remote detail, after
\* exactly one login, with one session handle opened and the URL as
\* configured.
C2_OtherFailureIsTerminal ==
  (FirstLoginFailed /\ logins[1].outcome.code # "HOST_IS_SLAVE") =>
    /\ pc = "failed"
    /\ error = Raise("XenapiException", "Could not connect to XenAPI",
                     logins[1].outcome.code)
    /\ Len(logins) = 1
    /\ Len(handles) = 1
    /\ url = conf.connection_url
    /\ session = 0

C2_Witness ==
  /\ FirstLoginFailed
  /\ logins[1].outcome.code = "SESSION_AUTHENTICATION_FAILED"
  /\ pc = "failed"
  /\ conf.connection_url = HttpLower

\* C3, as claimed: whenever the url or the password is null or empty,
\* get_api_session fails with the configuration error before any session
\* handle is opened and before any login (with the XenAPI library present).
C3_AbsentUrlOrPasswordFails ==
  (/\ api
   /\ pc # "new"
   /\ \/ conf.connection_url \in {Null, Empty}
      \/ conf.connection_password \in {Null, Empty}) =>
    /\ pc = "failed"
    /\ error = ConfigError
    /\ handles = << >>
    /\ logins = << >>

\* C3, amended: with the XenAPI library present, get_api_session fails with
\* the configuration error, before any session handle is opened and before
\* any login, whenever the url is null or empty or the password is null;
\* an empty password is accepted, and a session handle is opened for it.
C3_NullPasswordOrAbsentUrlFails ==
  /\ (/\ api
      /\ pc # "new"
      /\ \/ conf.connection_url \in {Null, Empty}
         \/ conf.connection_password = Null) =>
       /\ pc = "failed"
       /\ error = ConfigError
       /\ handles = << >>
       /\ logins = << >>
  /\ (/\ api
      /\ pc # "new"
      /\ conf.connection_url \notin {Null, Empty}
      /\ conf.connection_password = Empty) =>
       /\ Len(handles) >= 1
       /\ error # ConfigError

C3_Witness ==
  /\ api
  /\ pc = "failed"
  /\ conf.connection_url = HttpLower
  /\ conf.connection_password = Null
  /\ error = ConfigError

Kinds == {handles[i].kind : i \in 1..Len(handles)}

\* C4, as claimed: with the url "unix://local", for every login outcome, a
\* local session handle is opened and no network one; with any other url a
\* network session handle to that url is opened and no local one.
C4_LocalUrlNeverOpensNetwork ==
  Len(logins) >= 1 =>
    IF conf.connection_url = LocalUrl
    THEN Kinds = {"local"}
    ELSE /\ Kinds = {"network"}
         /\ handles[1].url = conf.connection_url

\* C4, amended: the first session handle is a local one exactly when the
\* url is "unix://local", and otherwise a network one to that url; the only
\* other handle ever opened is the network handle of the retry after a
\* first login failure HOST_IS_SLAVE, also when the first handle is local;
\* no local handle is opened for any other url.
C4_FirstHandleLocalIffSentinel ==
  handles # << >> =>
    /\ handles[1].url = conf.connection_url
    /\ handles[1].kind = "local" <=> conf.connection_url = LocalUrl
    /\ handles[1].kind \in {"local", "network"}
    /\ \A i \in 2..Len(handles) : handles[i].kind = "network"
    /\ Len(handles) >= 2 <=> FirstLoginSlave
    /\ logins # << >> => logins[1].handle = 1

C4_Witness ==
  /\ conf.connection_url = LocalUrl
  /\ Len(logins) = 2
  /\ logins[2].outcome.ok
  /\ handles[1].kind = "local"
  /\ handles[2].kind = "network"
  /\ session = 2

(***************************************************************************)
(* Properties of the collection operations.  In every operation the calls  *)
(* are logged in the order they are issued, so calls[1] is the first call  *)
(* of the operation under way.                                             *)
(***************************************************************************)
Collecting == op # None
Methods(m) == {k \in 1..Len(calls) : calls[k].method = m}
LookupAnswered ==
  Collecting /\ Len(calls) >= 1 /\ calls[1].method = "VM.get_by_name_label"
Matches == calls[1].answer.value
LookupFailed == LookupAnswered /\ (~calls[1].answer.ok \/ Len(Matches) # 1)

\* C5: _lookup_by_name returns a reference only for exactly one match, and
\* then that match; zero matches raise InstanceNotFoundException and more
\* than one raise the XenapiException of an ambiguous name, never the
\* first of them.
C5_LookupNeedsExactlyOneMatch ==
  (LookupAnswered /\ calls[1].answer.ok) =>
    /\ Len(Matches) = 1 =>
         /\ frame.vm_ref = Matches[1]
         /\ Len(calls) = 1 => (pc = AfterLookup(op) /\ error = NoError)
    /\ Len(Matches) = 0 =>
         /\ pc = "raised"
         /\ error = Raise("InstanceNotFoundException", "VM not found in XenServer",
                          frame.instance_name)
         /\ frame.vm_ref = None
    /\ Len(Matches) > 1 =>
         /\ pc = "raised"
         /\ error = Raise("XenapiException", "Multiple VM found in XenServer",
                          frame.instance_name)
         /\ frame.vm_ref = None

C5_Witness ==
  /\ LookupAnswered
  /\ calls[1].answer.ok
  /\ Len(Matches) = 2
  /\ Matches[1] # Matches[2]
  /\ pc = "raised"

\* C6: in each of the four operations the first remote call is
\* VM.get_by_name_label, issued once per invocation as soon as its body
\* runs (for the generators: at the first request), and every later call on
\* the VM uses the reference this invocation's lookup returned; when the
\* lookup fails, its failure is the operation's outcome, no other remote
\* call is issued and no record is produced.
C6_LookupFirstAndFresh ==
  Collecting =>
    /\ op \in Generators \cup {"inspect_instance"}
    /\ calls # << >> =>
         /\ calls[1].method = "VM.get_by_name_label"
         /\ calls[1].args = <<frame.instance_name>>
    /\ Methods("VM.get_by_name_label") \subseteq {1}
    /\ pc \notin {"created", "lookup"} => calls # << >>
    /\ pc = "created" <=> (op \in Generators /\ requested = 0)
    /\ \A k \in 2..Len(calls) :
         calls[k].method \in {"VM.get_VCPUs_max", "VM.query_data_source",
                              "VM.get_domid", "VM.get_VIFs", "VM.get_VBDs"}
           => calls[k].args[1] = Matches[1]
    /\ LookupFailed =>
         /\ Len(calls) = 1
         /\ pc = "raised"
         /\ ~calls[1].answer.ok => error = Propagate
         /\ error # NoError
         /\ out = << >>
         /\ result = None

C6_Witness ==
  /\ op = "inspect_vnic_rates"
  /\ LookupAnswered
  /\ ~calls[1].answer.ok
  /\ pc = "raised"
  /\ requested = 1

(***************************************************************************)
(* inspect_instance: calls[2] is VM.get_VCPUs_max, then the cpu sources,   *)
(* then "memory" and "memory_internal_free".                               *)
(***************************************************************************)
InInstance == op = "inspect_instance"
VcpusAnswered == InInstance /\ Len(calls) >= 2 /\ calls[2].answer.ok
Vcpus == calls[2].answer.value

RECURSIVE SumOfAnswers(_, _)
SumOfAnswers(from, to) ==
  IF from > to THEN Float(0)
  ELSE RatAdd(calls[from].answer.value, SumOfAnswers(from + 1, to))

\* C7: when the VCPU count read is <= 0, inspect_instance raises the
\* XenapiException of an invalid metric with no per-core query and no
\* memory query issued, and returns no record.
C7_NoVcpusIsInvalidMetric ==
  (VcpusAnswered /\ Vcpus <= 0) =>
    /\ pc = "raised"
    /\ error = Raise("XenapiException", "Could not get VM CPU number",
                     frame.instance_name)
    /\ Len(calls) = 2
    /\ Methods("VM.query_data_source") = {}
    /\ result = None

C7_Witness ==
  /\ VcpusAnswered
  /\ Vcpus = 0
  /\ pc = "raised"

\* C8: with a VCPU count n > 0, inspect_instance issues exactly n per-core
\* queries, "cpu0" .. "cpu<n-1>" in ascending order, each once, and
\* cpu_util is (sum of the n values / n) * 100, not clamped: 0.5 and 0.7
\* give 60.
C8_CpuUtilIsAveragePercent ==
  (VcpusAnswered /\ Vcpus > 0) =>
    /\ calls[2].method = "VM.get_VCPUs_max"
    /\ \A k \in 3..Len(calls) :
         k <= Vcpus + 2 <=> calls[k].args
                              = <<frame.vm_ref, CpuSource(k - 3)>>
    /\ pc = "returned" =>
         /\ Len(calls) = Vcpus + 4
         /\ RatMul(result.cpu_util, Float(Vcpus))
              = RatMul(SumOfAnswers(3, Vcpus + 2), Float(100))
         /\ (/\ Vcpus = 2
             /\ calls[3].answer.value = Rat(1, 2)
             /\ calls[4].answer.value = Rat(7, 10)) => result.cpu_util = Float(60)

C8_Witness ==
  /\ VcpusAnswered
  /\ Vcpus = 2
  /\ pc = "returned"
  /\ calls[3].answer.value = Rat(3, 2)
  /\ calls[4].answer.value = Rat(7, 10)
  /\ result.cpu_util = Float(110)

\* C9: memory_usage is (total - free * 1024) / (1024 * 1024), total being
\* the answer to "memory" and free the answer to "memory_internal_free";
\* when the latter query fails, the failure is not propagated and free is
\* 0: total 2097152 with free 1024 gives 1, and with the query failed 2.
C9_MemoryUsageWithFreeDefault ==
  (VcpusAnswered /\ Vcpus > 0 /\ Len(calls) = Vcpus + 4) =>
    LET total == calls[Vcpus + 3]
        free == calls[Vcpus + 4]
        free_KB == IF free.answer.ok THEN free.answer.value ELSE 0
    IN  /\ total.args = <<frame.vm_ref, Source("memory")>>
        /\ free.args = <<frame.vm_ref, Source("memory_internal_free")>>
        /\ total.answer.ok
        /\ pc = "returned"
        /\ error = NoError
        /\ (1024 * 1024) % result.memory_usage[2] = 0
        /\ result.memory_usage[1] * ((1024 * 1024) \div result.memory_usage[2])
             = total.answer.value - free_KB * 1024
        /\ (total.answer.value = 2097152 /\ free.answer.ok /\ free_KB = 1024)
             => result.memory_usage = Float(1)
        /\ (total.answer.value = 2097152 /\ ~free.answer.ok)
             => result.memory_usage = Float(2)

C9_Witness ==
  /\ VcpusAnswered
  /\ Vcpus > 0
  /\ Len(calls) = Vcpus + 4
  /\ ~calls[Vcpus + 4].answer.ok
  /\ calls[Vcpus + 3].answer.value = 2097152
  /\ result.memory_usage = Float(2)

(***************************************************************************)
(* inspect_vnics: the calls are the lookup, VM.get_domid, VM.get_VIFs, the *)
(* plugin call, and then one VIF.get_record for each element.              *)
(***************************************************************************)
\* C10: an inspect_vnics run to its end on a VM with k VIFs, all in the
\* plugin's snapshot, has yielded exactly k pairs in the order of the VIF
\* listing (none for an empty or null listing), the i-th with rx_bytes and
\* tx_bytes the bw_in and bw_out of the snapshot's entry for the VM's
\* domain id and the i-th VIF's device; the snapshot is fetched by exactly
\* one plugin call, whatever k is.
C10_VnicsYieldSnapshotCounters ==
  (op = "inspect_vnics" /\ pc = "exhausted") =>
    LET dom_id == calls[2].answer.value
        listing == IF calls[3].answer.value = <<None>> THEN << >>
                   ELSE calls[3].answer.value
        snapshot == PickleLoads(calls[4].answer.value)
        k == Len(listing)
    IN  /\ calls[2].method = "VM.get_domid"
        /\ calls[3].method = "VM.get_VIFs"
        /\ Methods("host.call_plugin") = {4}
        /\ Len(calls) = 4 + k
        /\ Len(out) = k
        /\ requested = k + 1
        /\ \A i \in 1..k :
             LET record == calls[4 + i].answer.value
             IN  /\ calls[4 + i].method = "VIF.get_record"
                 /\ calls[4 + i].args = <<listing[i]>>
                 /\ out[i][1].name = record.uuid
                 /\ out[i][1].mac = record.MAC
                 /\ out[i][2].rx_bytes = snapshot[dom_id][record.device].bw_in
                 /\ out[i][2].tx_bytes = snapshot[dom_id][record.device].bw_out

C10_Witness ==
  /\ op = "inspect_vnics"
  /\ pc = "exhausted"
  /\ Len(out) = 2
  /\ out[1][2].rx_bytes = 70
  /\ out[2][2].rx_bytes = 50
  /\ out[2][2].tx_bytes = 60

(***************************************************************************)
(* The placeholder fields of the records.                                  *)
(***************************************************************************)
Yielded == 1..Len(out)

\* C11: every InterfaceStats record inspect_vnics yields has rx_packets,
\* rx_drop, rx_errors, tx_packets, tx_drop and tx_errors equal to -1, and
\* every DiskRateStats record inspect_disk_rates yields has
\* read_requests_rate and write_requests_rate equal to 0, whatever the
\* remote side answered; the fields are always there.
C11_PlaceholderFieldsAreFixed ==
  /\ op = "inspect_vnics" =>
       \A i \in Yielded :
         /\ DOMAIN out[i][2] = {"rx_bytes", "rx_packets", "rx_drop", "rx_errors",
                                "tx_bytes", "tx_packets", "tx_drop", "tx_errors"}
         /\ \A f \in {"rx_packets", "rx_drop", "rx_errors",
                      "tx_packets", "tx_drop", "tx_errors"} : out[i][2][f] = 0 - 1
  /\ op = "inspect_disk_rates" =>
       \A i \in Yielded :
         /\ DOMAIN out[i][2] = {"read_bytes_rate", "read_requests_rate",
                                "write_bytes_rate", "write_requests_rate"}
         /\ out[i][2].read_requests_rate = 0
         /\ out[i][2].write_requests_rate = 0

C11_Witness ==
  /\ op = "inspect_disk_rates"
  /\ Len(out) = 2
  /\ out[1][2].read_bytes_rate = Rat(5, 2)
  /\ out[2][2].write_bytes_rate = Rat(5, 2)
  /\ out[2][2].write_requests_rate = 0

(***************************************************************************)
(* Properties of swap_xapi_host.                                           *)
(***************************************************************************)
\* C12: swap_xapi_host returns the URL with the host replaced by host_addr
\* and the scheme, userinfo, port, path, query and fragment as they were,
\* also when the host occurs in the port or the userinfo and when the host
\* is written with upper-case letters.
C12_SwapReplacesOnlyTheHost ==
  swap.stage = "swapped" =>
    swap.swapped = UrlOf(swap.userinfo, swap.host_addr, swap.port, swap.rest)

\* C13: swapping the host for another and then swapping the first host
\* back gives the URL that was started from.
C13_SwapRoundTrips ==
  swap.stage = "back" => swap.back = swap.url

(***************************************************************************)
(* The generators: the calls before the loop (the lookup, the listing,     *)
(* and for inspect_vnics the domain id and the plugin call), and then the  *)
(* calls of each element.                                                  *)
(***************************************************************************)
ListingMethod(o) == IF o = "inspect_disk_rates" THEN "VM.get_VBDs" ELSE "VM.get_VIFs"
ListingAt(o) == IF o = "inspect_vnics" THEN 3 ELSE 2
BeforeLoop(o) == IF o = "inspect_vnics" THEN 4 ELSE 2
PerElement(o) == IF o = "inspect_vnics" THEN 1 ELSE 3
\* the position in `calls` of the record fetch of the i-th element
FetchAt(o, i) == BeforeLoop(o) + PerElement(o) * (i - 1) + 1

\* C14: an inspect_disk_rates run to its end on a VM with k VBDs has
\* yielded exactly k pairs in the order of the VBD listing (none for an
\* empty or null listing); for each device it made exactly two data-source
\* queries, "vbd_<device>_read" and then "vbd_<device>_write", and their
\* values are the read_bytes_rate and the write_bytes_rate of the record.
C14_DiskRatesYieldQueriedRates ==
  (op = "inspect_disk_rates" /\ pc = "exhausted") =>
    LET listing == Listing(calls[2].answer.value)
        k == Len(listing)
    IN  /\ calls[2].method = "VM.get_VBDs"
        /\ Len(calls) = 2 + 3 * k
        /\ Len(out) = k
        /\ \A i \in 1..k :
             LET at == FetchAt(op, i)
                 record == calls[at].answer.value
             IN  /\ calls[at].method = "VBD.get_record"
                 /\ calls[at].args = <<listing[i]>>
                 /\ calls[at + 1].method = "VM.query_data_source"
                 /\ calls[at + 1].args =
                      <<frame.vm_ref, DeviceSource("vbd", record.device, "read")>>
                 /\ calls[at + 2].method = "VM.query_data_source"
                 /\ calls[at + 2].args =
                      <<frame.vm_ref, DeviceSource("vbd", record.device, "write")>>
                 /\ out[i][1] = [device |-> record.device]
                 /\ out[i][2].read_bytes_rate = calls[at + 1].answer.value
                 /\ out[i][2].write_bytes_rate = calls[at + 2].answer.value

C14_Witness ==
  /\ op = "inspect_disk_rates"
  /\ pc = "exhausted"
  /\ Len(out) = 2
  /\ out[1][1].device = "xvdb"
  /\ out[1][2].read_bytes_rate = Rat(5, 2)
  /\ out[1][2].write_bytes_rate = Rat(0, 1)
  /\ out[2][1].device = "xvda"

\* C15: the three generators work on demand over one listing: the listing
\* is queried at most once in an invocation, and exactly once in one that
\* has yielded an element or has come to its end; the calls for the i-th
\* element are made only once the i-th element has been requested, so a
\* consumer that stops after j elements has caused the calls of j elements
\* and no more; the sequence has at most one element per listed reference,
\* in the listing's order.
C15_GeneratorsAreLazyOverOneListing ==
  op \in Generators =>
    LET listings == Methods(ListingMethod(op))
    IN  /\ Cardinality(listings) <= 1
        /\ (out # << >> \/ pc = "exhausted") => listings = {ListingAt(op)}
        /\ pc = "created" => (calls = << >> /\ requested = 0)
        /\ Len(out) <= requested
        /\ Len(calls) <= BeforeLoop(op) + PerElement(op) * requested
        /\ pc = "suspended" =>
             /\ Len(out) = requested
             /\ Len(calls) = BeforeLoop(op) + PerElement(op) * requested
        /\ listings # {} /\ calls[ListingAt(op)].answer.ok =>
             LET listing == Listing(calls[ListingAt(op)].answer.value)
             IN  /\ Len(out) <= Len(listing)
                 /\ requested <= Len(listing) + 1
                 /\ Methods(RecordFetch(op)) \subseteq
                      {FetchAt(op, i) : i \in 1..requested}
                 /\ \A i \in Yielded :
                      calls[FetchAt(op, i)].args = <<listing[i]>>

C15_Witness ==
  /\ op = "inspect_vnic_rates"
  /\ pc = "suspended"
  /\ Len(out) = 1
  /\ Len(frame.refs) = 2
  /\ Len(calls) = 5

(***************************************************************************)
(* Failures of remote calls.                                               *)
(***************************************************************************)
Failed(k) == ~calls[k].answer.ok
IsFreeMemoryQuery(k) ==
  /\ calls[k].method = "VM.query_data_source"
  /\ calls[k].args[2] = Source("memory_internal_free")
OnceMethods ==
  {"session.get_this_host", "host.get_uuid", "VM.get_by_name_label",
   "VM.get_VCPUs_max", "VM.get_domid", "VM.get_VIFs", "VM.get_VBDs",
   "host.call_plugin"}

\* C16: no failure of a remote call is retried or swallowed: a failed call,
\* other than the "memory_internal_free" query, is the last call of its
\* operation, which ends with that failure as its error and without a
\* value; the calls outside the per-element loops are made at most once,
\* inspect_instance queries no data source twice, and the only repeated
\* attempt is the second login after a HOST_IS_SLAVE answer to the first.
C16_FailuresEndTheOperation ==
  /\ \A k \in 1..Len(calls) :
       (Failed(k) /\ ~IsFreeMemoryQuery(k)) =>
         /\ k = Len(calls)
         /\ pc \in {"raised", "failed"}
         /\ error.type = "Failure"
         /\ result = None
  /\ \A m \in OnceMethods : Cardinality(Methods(m)) <= 1
  /\ InInstance =>
       \A j, k \in Methods("VM.query_data_source") :
         calls[j].args = calls[k].args => j = k
  /\ Len(logins) <= 2
  /\ Len(logins) = 2 => FirstLoginSlave

C16_Witness ==
  /\ InInstance
  /\ pc = "raised"
  /\ Len(calls) = 5
  /\ Vcpus = 2
  /\ calls[4].answer.ok
  /\ Failed(5)
  /\ calls[5].args[2] = Source("memory")

(***************************************************************************)
(* inspect_vnics: keys that the plugin's snapshot does not have.           *)
(***************************************************************************)
VnicsDomId == calls[2].answer.value
VnicsSnapshot == PickleLoads(calls[4].answer.value)
VnicsDevice(i) == calls[4 + i].answer.value.device
VnicsKeyMissing(i) ==
  \/ VnicsDomId \notin DOMAIN VnicsSnapshot
  \/ VnicsDevice(i) \notin DOMAIN VnicsSnapshot[VnicsDomId]

\* C17, as claimed: an inspect_vnics whose snapshot lacks the VM's domain id
\* or the device of one of the VM's VIFs fails with a KeyError: it never
\* comes to its normal end.
C17_MissingKeyAlwaysFails ==
  (op = "inspect_vnics" /\ pc = "exhausted") =>
    /\ VnicsDomId \in DOMAIN VnicsSnapshot
    /\ \A i \in 1..Len(frame.refs) : ~VnicsKeyMissing(i)

\* C17, amended: the snapshot is looked into once for each VIF, when that
\* VIF's element is produced: if it lacks the VM's domain id or the VIF's
\* device, the operation ends there with a KeyError for the missing key,
\* having yielded the elements before that VIF and nothing for it;
\* otherwise the element is yielded.
C17_MissingKeyFailsAtItsVif ==
  op = "inspect_vnics" =>
    \A i \in 1..requested :
      (Len(calls) >= 4 + i /\ calls[4 + i].answer.ok) =>
        IF VnicsKeyMissing(i)
        THEN /\ Len(calls) = 4 + i
             /\ pc = "raised"
             /\ error.type = "KeyError"
             /\ error.detail = IF VnicsDomId \notin DOMAIN VnicsSnapshot
                               THEN VnicsDomId ELSE VnicsDevice(i)
             /\ Len(out) = i - 1
        ELSE /\ Len(out) >= i
             /\ ~(pc = "raised" /\ Len(calls) = 4 + i)

C17_Witness ==
  /\ op = "inspect_vnics"
  /\ pc = "raised"
  /\ error.type = "KeyError"
  /\ Len(out) = 1
  /\ VnicsSnapshot = SnapshotPartial
  /\ VnicsDomId = "1"
  /\ VnicsDevice(1) = "0"
  /\ VnicsDevice(2) = "1"

(***************************************************************************)
(* XenapiInspector.__init__: while no operation has been invoked, `calls`  *)
(* holds the remote calls of the construction.                             *)
(***************************************************************************)
LastLogin == logins[Len(logins)]
Established == logins # << >> /\ LastLogin.outcome.ok /\ session = LastLogin.handle

\* C18: when the session is established, the construction makes exactly two
\* remote calls, session.get_this_host and then host.get_uuid on the
\* reference the first returned, both through the session whose login
\* succeeded (after a redirect, the second one, opened at the master), and
\* keeps their answers as host_ref and host_uuid; when the establishment
\* fails, neither call is made and there is no inspector to invoke.
C18_ConstructionDerivesHostIdentity ==
  /\ op = None =>
       /\ Len(calls) <= 2
       /\ pc \in {"new", "login", "login_master", "get_this_host"} => calls = << >>
       /\ calls # << >> =>
            /\ Established
            /\ FirstLoginSlave => (session = 2 /\ handles[2].url = url)
            /\ calls[1].method = "session.get_this_host"
            /\ calls[1].session = session
            /\ calls[1].args = <<session>>
       /\ Len(calls) = 2 =>
            /\ calls[1].answer.ok
            /\ calls[2].method = "host.get_uuid"
            /\ calls[2].session = session
            /\ calls[2].args = <<calls[1].answer.value>>
       /\ pc = "get_uuid" => (Len(calls) = 1 /\ host_ref = calls[1].answer.value)
       /\ (pc = "ready" /\ calls # << >>) =>
            /\ Len(calls) = 2
            /\ calls[2].answer.ok
            /\ host_ref = calls[1].answer.value
            /\ host_uuid = calls[2].answer.value
       /\ (pc = "failed" /\ ~Established) =>
            (calls = << >> /\ session = 0)
  /\ (Collecting \/ pc = "ready") => Established

C18_Witness ==
  /\ pc = "ready"
  /\ Len(calls) = 2
  /\ Len(logins) = 2
  /\ session = 2
  /\ calls[1].session = 2
  /\ calls[2].session = 2
  /\ host_uuid = calls[2].answer.value

(***************************************************************************)
(* The inspector after its construction.                                   *)
(***************************************************************************)
ConstructionPcs == {"new", "login", "login_master", "get_this_host", "get_uuid"}

\* C19: once the inspector is constructed, its session handle, host_ref and
\* host_uuid never change: no step of an inspect_* invocation (or between
\* invocations) logs in, opens a session handle or rewrites the URL, and
\* every remote call of an invocation goes through the inspector's session.
C19_InspectorIdentityIsFixed ==
  /\ [](Collecting => \A k \in 1..Len(calls) : calls[k].session = session)
  /\ [][pc \notin ConstructionPcs =>
          /\ session' = session
          /\ host_ref' = host_ref
          /\ host_uuid' = host_uuid
          /\ handles' = handles
          /\ logins' = logins
          /\ url' = url]_vars

C19_Witness ==
  /\ op = "inspect_disk_rates"
  /\ pc = "raised"
  /\ Len(out) = 1
  /\ Len(logins) = 2
  /\ session = 2
  /\ calls[Len(calls)].session = 2

(***************************************************************************)
(* Failures in the middle of an operation.                                 *)
(***************************************************************************)
\* the i-th yielded element carries what the calls for it answered
Delivered(i) ==
  LET at == FetchAt(op, i)
      record == calls[at].answer.value
  IN  CASE op = "inspect_vnics" ->
             /\ out[i][1].name = record.uuid
             /\ out[i][1].mac = record.MAC
             /\ out[i][2].rx_bytes = VnicsSnapshot[VnicsDomId][record.device].bw_in
             /\ out[i][2].tx_bytes = VnicsSnapshot[VnicsDomId][record.device].bw_out
        [] op = "inspect_vnic_rates" ->
             /\ out[i][1].name = record.uuid
             /\ out[i][1].mac = record.MAC
             /\ out[i][2] = [rx_bytes_rate |-> calls[at + 1].answer.value,
                             tx_bytes_rate |-> calls[at + 2].answer.value]
        [] op = "inspect_disk_rates" ->
             /\ out[i][1].device = record.device
             /\ out[i][2].read_bytes_rate = calls[at + 1].answer.value
             /\ out[i][2].write_bytes_rate = calls[at + 2].answer.value

\* C20: in the three generators a failure while the i-th element is being
\* produced surfaces at the request for the i-th element: the i - 1
\* elements before it have been delivered, with the values the remote side
\* answered for them, and after the failure the generator delivers nothing
\* more; inspect_instance returns a record only when the VCPU count, every
\* per-core query and the "memory" query succeeded, and nothing otherwise.
C20_FailureSurfacesAtItsElement ==
  /\ [](op \in Generators =>
          /\ \A i \in Yielded : Delivered(i)
          /\ pc = "raised" =>
               /\ Len(out) = requested - 1
               /\ Len(calls) <= BeforeLoop(op) + PerElement(op) * requested
               /\ Len(out) >= 1 =>
                    Len(calls) > BeforeLoop(op) + PerElement(op) * Len(out))
  /\ [](InInstance =>
          /\ pc = "returned" =>
               /\ Len(calls) = Vcpus + 4
               /\ \A k \in 1..(Vcpus + 3) : calls[k].answer.ok
          /\ pc # "returned" => result = None)
  /\ [][pc = "raised" => (pc' = "ready" /\ op' = None /\ out' = << >>)]_vars

C20_Witness ==
  /\ op = "inspect_vnic_rates"
  /\ pc = "raised"
  /\ requested = 2
  /\ Len(out) = 1
  /\ Len(calls) = 7
  /\ Failed(7)
  /\ out[1][2].rx_bytes_rate = Rat(5, 2)
  /\ out[1][2].tx_bytes_rate = Rat(0, 1)

=============================================================================
